---- MODULE Spec2Model ----
(***************************************************************************)
(* A model of the arcane-python snippets:                                  *)
(*   src/interfaces/base_for_async_and_sync_subclasshook.py                *)
(*       AbstractAction / AbstractAsyncAction (behavior slot, wrapper),     *)
(*       the __subclasshook__ capability checks of the five interfaces      *)
(*   src/impractical/fsm_ctx_manager.py   state_machine / index             *)
(*   src/io_processing/json_config_load_once.py   memoize                   *)
(* Each part has its own specification (SpecAction, SpecWrapper, SpecCap,  *)
(* SpecDispatch, SpecRegistry, SpecMemo); the variables of the other parts *)
(* stay at their idle value.                                                *)
(***************************************************************************)
EXTENDS Integers, Sequences, FiniteSets, TLC

VARIABLES
    obj,        \* Action part: name -> Unbound or [cls, dict] (the instance and its __dict__)
    call,       \* Action part: thread -> the invocation in flight
    lastOp,     \* Action part: the last constructor call or behavior assignment and its outcome
    lastGood,   \* Action part: name -> the callable of the last successful replacement
    wrapCall,   \* Wrapper part: one wrapper built by _gen_wrapper and one call of it
    cap,        \* Capability part: the candidate, the role asked and the check's result
    req,        \* Dispatch part: the request index() is serving and how far it got
    reg,        \* Registry part: key -> the Action stored, or Absent
    lock,       \* Registry part: the caller holding the registry's mutex, or Free
    caller,     \* Registry part: caller -> its create / retrieve call and outcome
    cache,      \* Memoize part: the closure's cache, call key -> result
    hist,       \* Memoize part: what the wrapped function did since the last clear_cache
    lastCall,   \* Memoize part: the last step a call of the memoized function took
    frame       \* Memoize part: thread -> its call of the memoized function in progress

actionVars == <<obj, call, lastOp, lastGood>>
wrapVars == <<wrapCall>>
capVars == <<cap>>
dispVars == <<req>>
regVars == <<reg, lock, caller>>
memoVars == <<cache, hist, lastCall, frame>>
vars == <<obj, call, lastOp, lastGood, wrapCall, cap, req, reg, lock, caller,
          cache, hist, lastCall, frame>>

----------------------------------------------------------------------------
(* Bounds of the model *)

\* how many _generic wrappers may be nested around a function
MaxWrapDepth == 2

----------------------------------------------------------------------------
(* Python values *)

None == [kind |-> "None"]
NotImplemented == [kind |-> "NotImplemented"]

SyncNames == {"f1", "f2"}
CoroNames == {"g1", "g2"}

\* a function object: `def name` or `async def name` (CO_COROUTINE set for the latter)
Def(n, isCoro) == [kind |-> "function", name |-> n, coroutine |-> isCoro]

SyncFns == {Def(n, FALSE) : n \in SyncNames}
CoroFns == {Def(n, TRUE) : n \in CoroNames}
BaseFns == SyncFns \cup CoroFns

\* AbstractAction.__init__: lambda: NotImplemented
PlaceholderLambda == Def("lambda", FALSE)
\* AbstractAsyncAction.__init__: async def default(): return NotImplemented
PlaceholderDefault == Def("default", TRUE)

EmptyKwargs == [k \in {} |-> None]

\* inspect.iscoroutinefunction: a function whose code object is a coroutine's.
\* The _generic closure is a plain `def`, whatever it wraps.
iscoroutinefunction(c) == c.kind = "function" /\ c.coroutine

\* _gen_wrapper: the _generic closure over Func, Partial_Args, Partial_Kwargs
_gen_wrapper(Func, Partial_Args, Partial_Kwargs) ==
    [kind |-> "generic", Func |-> Func,
     Partial_Args |-> Partial_Args, Partial_Kwargs |-> Partial_Kwargs]

RECURSIVE WrapDepth(_)
WrapDepth(c) == IF c.kind = "generic" THEN 1 + WrapDepth(c.Func) ELSE 0

\* the function at the bottom of a chain of wrappers
RECURSIVE Root(_)
Root(c) == IF c.kind = "generic" THEN Root(c.Func) ELSE c

----------------------------------------------------------------------------
(* AbstractAction / AbstractAsyncAction *)

Names == {"a", "b"}
\* the thread that invokes Actions while the main flow constructs and assigns
Threads == {"t1"}
Classes == {"AbstractAction", "AbstractAsyncAction"}

Unbound == [cls |-> "unbound"]
Bound(n) == obj[n].cls # "unbound"

\* the property getter: return self._behavior_store
Slot(n) == obj[n].dict["_behavior_store"]

\* AbstractAction_accepts with the `not` in front of iscoroutinefunction lost
\* (a faulty variant: C1 must fail under it)
AbstractAction_accepts_NoNot(func) == func # None /\ iscoroutinefunction(func)

\* AbstractAction.__behavior__ setter: func is not None and not iscoroutinefunction(func)
AbstractAction_accepts(func) == func # None /\ ~iscoroutinefunction(func)

\* AbstractAsyncAction.__async_behavior__ setter: coro is not None and iscoroutinefunction(coro)
AbstractAsyncAction_accepts(coro) == coro # None /\ iscoroutinefunction(coro)

\* the test of the setter of class cls
Accepts(cls, func) ==
    IF cls = "AbstractAction" THEN AbstractAction_accepts(func)
    ELSE AbstractAsyncAction_accepts(func)

\* the value the setter stores: the property assignment passes no *args, **kwargs
Stored(func) == _gen_wrapper(func, <<>>, EmptyKwargs)

\* keyword arguments given to a constructor besides the behavior
KwargsChoices ==
    {EmptyKwargs}
      \cup {("label" :> Def("f1", FALSE))}
      \cup {("_behavior_store" :> c) : c \in {Def("f1", FALSE), Def("g1", TRUE)}}

\* what a caller can pass as a behavior: a function, None, or the behavior read
\* from an Action (the getter returns the stored wrapper)
Inputs ==
    {c \in BaseFns \cup {None} \cup {Slot(m) : m \in {x \in Names : Bound(x)}} :
        WrapDepth(c) < MaxWrapDepth}

\* A call of f with positional args and keyword kwargs. A function is kept symbolic: its outcome
\* records the arguments it was given. A _generic closure runs
\*     Func( *args, *Partial_Args, **kwargs, **Partial_Kwargs )
\* and a call that unpacks two mappings sharing a name raises TypeError
\* ("got multiple values for keyword argument").
RECURSIVE Apply(_, _, _)
Apply(f, args, kwargs) ==
    IF f.kind = "generic"
    THEN IF DOMAIN kwargs \cap DOMAIN f.Partial_Kwargs # {}
         THEN [kind |-> "raise", exc |-> "TypeError"]
         ELSE Apply(f.Func, args \o f.Partial_Args, kwargs @@ f.Partial_Kwargs)
    ELSE IF f.name \in {"lambda", "default"} /\ ~(args = <<>> /\ DOMAIN kwargs = {})
         THEN [kind |-> "raise", exc |-> "TypeError"]  \* both placeholders take no parameter
    ELSE IF f.coroutine
         THEN [kind |-> "coroutine", of |-> f.name, args |-> args, kwargs |-> kwargs]
    ELSE IF f.name = "lambda"
         THEN NotImplemented
    ELSE [kind |-> "value", of |-> f.name, args |-> args, kwargs |-> kwargs]

\* the _generic closure w called with positional args and keyword kwargs
_generic(w, args, kwargs) == Apply(w, args, kwargs)

\* c() for a callable c, no arguments
CallFn(c) == Apply(c, <<>>, EmptyKwargs)

\* self.__async_behavior__(...).__await__() driven to completion, x being the
\* outcome of the call: an exception raised by the call propagates, a coroutine
\* gives its result, any other value has no __await__
Await(x) ==
    IF x.kind = "raise" THEN x
    ELSE IF x.kind = "coroutine"
    THEN (IF x.of = "default" THEN NotImplemented
          ELSE [kind |-> "value", of |-> x.of, args |-> x.args, kwargs |-> x.kwargs])
    ELSE [kind |-> "raise", exc |-> "AttributeError"]

\* AbstractAction.__call__ / AbstractAsyncAction.__await__ applied to the behavior read
Invoke(cls, beh) ==
    IF cls = "AbstractAction" THEN CallFn(beh) ELSE Await(CallFn(beh))

Idle == [pc |-> "idle"]

ActionInit ==
    /\ obj = [n \in Names |-> Unbound]
    /\ call = [t \in Threads |-> Idle]
    /\ lastOp = [op |-> "none"]
    /\ lastGood = [n \in Names |-> None]

\* __init__(self, func=None, **kwargs): placeholder, the setter, __dict__.update(kwargs)
Construct(n, cls, func, kw) ==
    /\ ~Bound(n)
    /\ IF Accepts(cls, func)
       THEN /\ obj' = [obj EXCEPT ![n] =
                        [cls |-> cls,
                         dict |-> kw @@ ("_behavior_store" :> Stored(func))]]
            /\ lastOp' = [op |-> "init", name |-> n, cls |-> cls, func |-> func, outcome |-> "ok", before |-> None]
       ELSE /\ obj' = obj
            /\ lastOp' = [op |-> "init", name |-> n, cls |-> cls, func |-> func, outcome |-> "ValueError", before |-> None]
    /\ UNCHANGED <<call, lastGood, wrapVars, capVars, dispVars, regVars, memoVars>>

\* a.__behavior__ = func  /  b.__async_behavior__ = coro   on a live Action
SetBehavior(n, func) ==
    /\ Bound(n)
    /\ IF Accepts(obj[n].cls, func)
       THEN /\ obj' = [obj EXCEPT ![n].dict =
                        ("_behavior_store" :> Stored(func)) @@ obj[n].dict]
            /\ lastGood' = [lastGood EXCEPT ![n] = func]
            /\ lastOp' = [op |-> "set", name |-> n, cls |-> obj[n].cls, func |-> func, outcome |-> "ok", before |-> Slot(n)]
       ELSE /\ UNCHANGED <<obj, lastGood>>
            /\ lastOp' = [op |-> "set", name |-> n, cls |-> obj[n].cls, func |-> func, outcome |-> "ValueError", before |-> Slot(n)]
    /\ UNCHANGED <<call, wrapVars, capVars, dispVars, regVars, memoVars>>

\* BehaviorInFlight re-reading the slot when the invocation runs
\* (a faulty variant: C4 must fail under it)
BehaviorInFlight_Live(t) == Slot(call[t].obj)

\* the wrapper an invocation runs: the one self.__behavior__ returned when it began
BehaviorInFlight(t) == call[t].beh

\* __call__ / __await__ evaluates self.__behavior__ (reads the slot) ...
InvokeBegin(t, n) ==
    /\ call[t].pc \in {"idle", "done"}
    /\ Bound(n)
    /\ call' = [call EXCEPT ![t] =
                 [pc |-> "called", obj |-> n, beh |-> Slot(n),
                  expect |-> Invoke(obj[n].cls, Slot(n)), good |-> lastGood[n],
                  ret |-> None, live |-> None]]
    /\ UNCHANGED <<obj, lastOp, lastGood, wrapVars, capVars, dispVars, regVars, memoVars>>

\* ... and then runs the wrapper it read
InvokeEnd(t) ==
    /\ call[t].pc = "called"
    /\ call' = [call EXCEPT ![t].pc = "done",
                            ![t].ret = Invoke(obj[call[t].obj].cls, BehaviorInFlight(t)),
                            ![t].live = Invoke(obj[call[t].obj].cls, Slot(call[t].obj))]
    /\ UNCHANGED <<obj, lastOp, lastGood, wrapVars, capVars, dispVars, regVars, memoVars>>

WrapIdle == wrapCall = [pc |-> "off"]
CapIdle == cap = [pc |-> "off"]
DispIdle == req = [pc |-> "off"]
RegIdle == reg = <<>> /\ lock = {} /\ caller = <<>>
MemoIdle == cache = <<>> /\ hist = <<>> /\ lastCall = [op |-> "off"] /\ frame = <<>>

InitAction == ActionInit /\ WrapIdle /\ CapIdle /\ DispIdle /\ RegIdle /\ MemoIdle

NextAction ==
    \/ \E n \in Names, cls \in Classes, func \in Inputs, kw \in KwargsChoices :
          Construct(n, cls, func, kw)
    \/ \E n \in Names, func \in Inputs : SetBehavior(n, func)
    \/ \E t \in Threads, n \in Names : InvokeBegin(t, n)
    \/ \E t \in Threads : InvokeEnd(t)

SpecAction == InitAction /\ [][NextAction]_vars

(* ---- claims about the Actions ---- *)

\* C1: assigning a coroutine function to a sync Action (by the setter or by the
\* constructor) fails with the kind-mismatch ValueError, assigning a non-coroutine
\* callable to an async Action fails with it, and assigning a callable of the
\* matching kind never fails.
C1_KindMismatchAlwaysFails ==
    (lastOp.op \in {"init", "set"} /\ lastOp.func # None) =>
        ((lastOp.outcome = "ValueError")
            <=> ((lastOp.func \in CoroFns) # (lastOp.cls = "AbstractAsyncAction")))

C1_Witness ==
    /\ lastOp.op = "set"
    /\ lastOp.cls = "AbstractAction"
    /\ lastOp.func \in CoroFns
    /\ lastOp.outcome = "ValueError"

\* C2: construction with no behavior argument (func = None) succeeds and leaves the
\* Action holding the "unimplemented" placeholder.
C2_ConstructWithoutBehavior ==
    (lastOp.op = "init" /\ lastOp.func = None) =>
        /\ lastOp.outcome = "ok"
        /\ Bound(lastOp.name)
        /\ Root(Slot(lastOp.name)) \in {PlaceholderLambda, PlaceholderDefault}

\* C3: the behavior stored in a sync AbstractAction is never an async callable or a
\* wrapper of one, and the behavior stored in an AbstractAsyncAction always is.
C3_KindNeverChanges ==
    \A n \in Names :
        Bound(n) =>
            (iscoroutinefunction(Root(Slot(n))) <=> (obj[n].cls = "AbstractAsyncAction"))

\* C4: an invocation completes with the result of the behavior that was in the slot
\* when it began, whatever is assigned meanwhile; an invocation that begins after a
\* successful replacement returns what the new callable returns; a replacement
\* that fails leaves the stored behavior as it was.
C4_ReplacementNextInvocation ==
    /\ \A t \in Threads :
          call[t].pc = "done" => call[t].ret = call[t].expect
    /\ \A t \in Threads :
          (call[t].pc \in {"called", "done"} /\ call[t].good # None) =>
              call[t].expect = Invoke(obj[call[t].obj].cls, call[t].good)
    /\ (lastOp.op = "set" /\ lastOp.outcome = "ValueError") =>
          Slot(lastOp.name) = lastOp.before

\* an invocation that was in flight across a successful replacement: it returned
\* the old behavior's result, which is not what the slot gives now
C4_Witness ==
    \E t \in Threads :
        /\ call[t].pc = "done"
        /\ call[t].ret = call[t].expect
        /\ call[t].ret # call[t].live
        /\ lastOp.op = "set" /\ lastOp.outcome = "ok" /\ lastOp.name = call[t].obj

----------------------------------------------------------------------------
(* The behavior wrapper alone: built with bound B, K and called with A, W *)

\* longest positional argument list, bound or given at the call
MaxArgs == 2

ArgValues == {1, 2}
KwNames == {"x", "y"}

PosArgs == UNION {[1..k -> ArgValues] : k \in 0..MaxArgs}
Kwargs == UNION {[D -> ArgValues] : D \in SUBSET KwNames}

WrapInit ==
    wrapCall \in {[pc |-> "built", w |-> _gen_wrapper(f, B, K)] :
                    f \in {Def("f1", FALSE), Def("g1", TRUE)}, B \in PosArgs, K \in Kwargs}

ActionIdle ==
    /\ obj = [n \in Names |-> Unbound]
    /\ call = [t \in Threads |-> Idle]
    /\ lastOp = [op |-> "off"]
    /\ lastGood = [n \in Names |-> None]

\* the wrapper called with positional A and keyword W
CallWrapper(A, W) ==
    /\ wrapCall.pc \in {"built", "returned"}
    /\ wrapCall' = [pc |-> "returned", w |-> wrapCall.w, A |-> A, W |-> W,
                    result |-> _generic(wrapCall.w, A, W)]
    /\ UNCHANGED <<actionVars, capVars, dispVars, regVars, memoVars>>

InitWrapper == WrapInit /\ ActionIdle /\ CapIdle /\ DispIdle /\ RegIdle /\ MemoIdle

NextWrapper == \E A \in PosArgs, W \in Kwargs : CallWrapper(A, W)

SpecWrapper == InitWrapper /\ [][NextWrapper]_vars

\* C5: the wrapper called with (A, W) returns f(A followed by B, W with K filling
\* the names W does not supply), for every A, B, W, K, also when W and K share a
\* name (the call-site value wins, no error).
C5_WrapperMergesArguments ==
    wrapCall.pc = "returned" =>
        wrapCall.result =
            Apply(wrapCall.w.Func,
                  wrapCall.A \o wrapCall.w.Partial_Args,
                  wrapCall.W @@ wrapCall.w.Partial_Kwargs)

----------------------------------------------------------------------------
(* The capability checks: the __subclasshook__ of each interface *)

\* Python's `a and b` / `a or b` over the values "True", "False" and
\* "NotImplemented" (truthy), returning the operand that decides; an operand that
\* raised ("AttributeError") ends the evaluation. The right operand is given
\* unevaluated and is not looked at when the left decides. (NotImplemented is
\* truthy up to Python 3.13, with a DeprecationWarning from 3.9 on.)
Truthy(v) == v \in {"True", "NotImplemented"}
Raised(v) == v = "AttributeError"
PyAnd(a, b) == IF Raised(a) THEN a ELSE IF Truthy(a) THEN b ELSE a
PyOr(a, b) == IF Raised(a) THEN a ELSE IF Truthy(a) THEN a ELSE b

\* a candidate: each member name is absent, a plain attribute, or a callable
MemberStates == {"absent", "attr", "callable"}

\* hasattr(sub, m)
hasattr(sub, m) == IF sub[m] # "absent" THEN "True" ELSE "False"

\* callable(sub.m): reading a member the candidate lacks raises AttributeError
callable(sub, m) ==
    IF sub[m] = "absent" THEN "AttributeError"
    ELSE IF sub[m] = "callable" THEN "True" ELSE "False"

\* hasattr(sub, m) and callable(sub.m)
HasCallable(sub, m) == PyAnd(hasattr(sub, m), callable(sub, m))

LinkMembers == {"__enter__", "__exit__", "__aenter__", "__aexit__",
                "generate_uri", "decode_uri"}
RegistryMembers == {"create", "async_create", "delete", "async_delete", "__keystore__",
                    "__setitem__", "__getitem__", "retrieve", "async_retrieve"}
ActionMembers == {"__behavior__", "__call__", "__enter__", "__exit__",
                  "__async_behavior__", "__await__", "__aenter__", "__aexit__"}
DownloadMembers == {"__aenter__", "__aexit__", "__enter__", "__exit__",
                    "before_download", "after_download"}
UploadMembers == {"__aenter__", "__aexit__", "__enter__", "__exit__",
                  "before_upload", "after_upload"}
AllMembers == LinkMembers \cup RegistryMembers \cup ActionMembers
                \cup DownloadMembers \cup UploadMembers

\* LinkInterface.__subclasshook__
LinkInterface_subclasshook(sub) ==
    PyAnd(PyAnd(
        PyOr(PyAnd(HasCallable(sub, "__enter__"), HasCallable(sub, "__exit__")),
             PyAnd(HasCallable(sub, "__aenter__"), HasCallable(sub, "__aexit__"))),
        HasCallable(sub, "generate_uri")),
        HasCallable(sub, "decode_uri"))

\* RegistryInterface_subclasshook with the __getitem__ test left out
\* (a faulty variant: C6 must fail under it)
RegistryInterface_subclasshook_NoGetitem(sub) ==
    PyAnd(PyAnd(PyAnd(PyAnd(
        PyOr(HasCallable(sub, "create"), HasCallable(sub, "async_create")),
        PyOr(HasCallable(sub, "delete"), HasCallable(sub, "async_delete"))),
        hasattr(sub, "__keystore__")),
        HasCallable(sub, "__setitem__")),
        PyOr(HasCallable(sub, "retrieve"), HasCallable(sub, "async_retrieve")))

\* RegistryInterface.__subclasshook__
RegistryInterface_subclasshook(sub) ==
    PyAnd(PyAnd(PyAnd(PyAnd(PyAnd(
        PyOr(HasCallable(sub, "create"), HasCallable(sub, "async_create")),
        PyOr(HasCallable(sub, "delete"), HasCallable(sub, "async_delete"))),
        hasattr(sub, "__keystore__")),
        HasCallable(sub, "__setitem__")),
        HasCallable(sub, "__getitem__")),
        PyOr(HasCallable(sub, "retrieve"), HasCallable(sub, "async_retrieve")))

\* ActionInterface.__subclasshook__
ActionInterface_subclasshook(sub) ==
    PyOr(
        PyAnd(hasattr(sub, "__behavior__"),
              PyOr(HasCallable(sub, "__call__"),
                   PyAnd(PyAnd(HasCallable(sub, "__call__"),
                               HasCallable(sub, "__enter__")),
                         HasCallable(sub, "__exit__")))),
        PyAnd(hasattr(sub, "__async_behavior__"),
              PyOr(HasCallable(sub, "__await__"),
                   PyAnd(PyAnd(HasCallable(sub, "__await__"),
                               HasCallable(sub, "__aenter__")),
                         HasCallable(sub, "__aexit__")))))

\* the context-management test shared by DownloadInterface and UploadInterface:
\* both hasattr tests come before both callable tests
ContextManaged(sub) ==
    PyOr(PyAnd(PyAnd(PyAnd(hasattr(sub, "__aenter__"), hasattr(sub, "__aexit__")),
                     callable(sub, "__aenter__")), callable(sub, "__aexit__")),
         PyAnd(PyAnd(PyAnd(hasattr(sub, "__enter__"), hasattr(sub, "__exit__")),
                     callable(sub, "__enter__")), callable(sub, "__exit__")))

\* the hook of DownloadInterface / UploadInterface with its two member names:
\*   ctx and (has-callable before or NotImplemented)
\*       and (has-callable after or NotImplemented) or NotImplemented
TransferHook(sub, before, after) ==
    PyOr(PyAnd(PyAnd(ContextManaged(sub),
                     PyOr(HasCallable(sub, before), "NotImplemented")),
               PyOr(HasCallable(sub, after), "NotImplemented")),
         "NotImplemented")

\* DownloadInterface.__subclasshook__
DownloadInterface_subclasshook(sub) ==
    TransferHook(sub, "before_download", "after_download")

\* UploadInterface.__subclasshook__
UploadInterface_subclasshook(sub) ==
    TransferHook(sub, "before_upload", "after_upload")

Roles == {"action", "async_action", "registry", "link_parser", "download", "upload"}

RoleMembers(role) ==
    CASE role \in {"action", "async_action"} -> ActionMembers
      [] role = "registry" -> RegistryMembers
      [] role = "link_parser" -> LinkMembers
      [] role = "download" -> DownloadMembers
      [] role = "upload" -> UploadMembers

\* the hook that decides a role
satisfies(sub, role) ==
    CASE role \in {"action", "async_action"} -> ActionInterface_subclasshook(sub)
      [] role = "registry" -> RegistryInterface_subclasshook(sub)
      [] role = "link_parser" -> LinkInterface_subclasshook(sub)
      [] role = "download" -> DownloadInterface_subclasshook(sub)
      [] role = "upload" -> UploadInterface_subclasshook(sub)

\* candidates for a role: every combination of the members its hook looks at
Candidates(role) ==
    {[m \in AllMembers |-> IF m \in RoleMembers(role) THEN c[m] ELSE "absent"] :
        c \in [RoleMembers(role) -> MemberStates]}

CapInit ==
    cap \in UNION {{[pc |-> "candidate", role |-> r, sub |-> c] : c \in Candidates(r)} :
                     r \in Roles}

Check ==
    /\ cap.pc = "candidate"
    /\ cap' = [pc |-> "checked", role |-> cap.role, sub |-> cap.sub,
               result |-> satisfies(cap.sub, cap.role)]
    /\ UNCHANGED <<actionVars, wrapVars, dispVars, regVars, memoVars>>

InitCap == CapInit /\ ActionIdle /\ WrapIdle /\ DispIdle /\ RegIdle /\ MemoIdle

NextCap == Check

SpecCap == InitCap /\ [][NextCap]_vars

IsCallable(sub, m) == sub[m] = "callable"

\* C6: the registry check accepts a candidate exactly when it has a callable create
\* or async_create, a callable delete or async_delete, callable __getitem__ and
\* __setitem__, a callable retrieve or async_retrieve, and the __keystore__ marker.
C6_RegistryCheck ==
    (cap.pc = "checked" /\ cap.role = "registry") =>
        /\ cap.result \in {"True", "False"}
        /\ (cap.result = "True") <=>
              /\ IsCallable(cap.sub, "create") \/ IsCallable(cap.sub, "async_create")
              /\ IsCallable(cap.sub, "delete") \/ IsCallable(cap.sub, "async_delete")
              /\ IsCallable(cap.sub, "__getitem__")
              /\ IsCallable(cap.sub, "__setitem__")
              /\ IsCallable(cap.sub, "retrieve") \/ IsCallable(cap.sub, "async_retrieve")
              /\ cap.sub["__keystore__"] # "absent"

\* a candidate with only a creation entry point, rejected
C6_Witness ==
    /\ cap.pc = "checked" /\ cap.role = "registry"
    /\ cap.sub["create"] = "callable"
    /\ \A m \in AllMembers \ {"create"} : cap.sub[m] = "absent"
    /\ cap.result = "False"

\* C7: for every role and candidate the check returns exactly true or false, never
\* NotImplemented and never an error, and a download / upload candidate without
\* context-management entry points or without its before / after member gets false.
C7_CheckReturnsBoolean ==
    cap.pc = "checked" =>
        /\ cap.result \in {"True", "False"}
        /\ (cap.role = "download"
              /\ (~IsCallable(cap.sub, "before_download")
                    \/ ~IsCallable(cap.sub, "after_download")))
            => cap.result = "False"
        /\ (cap.role = "upload"
              /\ (~IsCallable(cap.sub, "before_upload")
                    \/ ~IsCallable(cap.sub, "after_upload")))
            => cap.result = "False"

----------------------------------------------------------------------------
(* The dispatcher: index() driving state_machine as a context manager *)

\* the methods the "/<uri>" route accepts, and those index() refuses
Methods == {"POST", "GET", "PUT", "DELETE", "PATCH"}
RefusedMethods == {"DELETE", "PUT", "PATCH"}

\* line 35, return redirect("https://localhost:443/) : the string literal is
\* never closed, so the file does not compile
Line35ClosesLiteral == FALSE

\* the names the module's statements bind when they run
ModuleNames == {"Flask", "request", "abort", "redirect", "config", "_parse",
                "Union", "Dict", "List", "__Registry__", "app", "Registry",
                "state_machine", "dummy_index", "index"}

\* the names bound at module level: none when the file does not compile
ModuleGlobals == IF Line35ClosesLiteral THEN ModuleNames ELSE {}

\* the parameters __exit__ declares, and the arguments a with statement passes it
ExitParameters == <<"self">>
WithExitArguments == <<"self", "exc_type", "exc_value", "traceback">>

\* keys the opened Registry holds
RegistryKeys == {"echo", "add"}

\* request paths: the key they name and one request field
Uris == [key : {"echo", "add", "missing", "error"}, x : {1, 2, 3, 4}]

\* l.utils._parse: the packet of a path, {"func": ..., "kwargs": ...}
_parse(uri) == [func |-> uri.key, kwargs |-> <<uri.x>>]

\* state_machine.run: the body reads the name `packet`, not self.packet
run(self) ==
    IF "packet" \notin ModuleGlobals
    THEN [kind |-> "raise", exc |-> "NameError"]
    ELSE IF ~(self.packet.func = "error")
         THEN (IF self.packet.func \in RegistryKeys
               THEN [kind |-> "return", value |-> self.packet]
               ELSE [kind |-> "raise", exc |-> "KeyError"])
         ELSE [kind |-> "return", value |-> self.packet.kwargs[1]]

\* the call of bot.__exit__ the with statement makes when its body has ended
exit(self, body) ==
    IF Len(WithExitArguments) # Len(ExitParameters)
    THEN [kind |-> "raise", exc |-> "TypeError"]
    ELSE IF body.kind = "raise"
         THEN [kind |-> "return", value |-> "None"]  \* __exit__ returns self: truthy, swallowed
         ELSE body

\* state_machine(uri) and __enter__: self.packet = _parse(self.uri)
enter(uri) == [uri |-> uri, packet |-> _parse(uri)]

\* index(uri): abort(405) for DELETE, PUT, PATCH; otherwise
\*     with state_machine(request.path) as bot: return bot.run()
index(method, uri) ==
    IF method \in RefusedMethods
    THEN [kind |-> "abort", status |-> 405]
    ELSE exit(enter(uri), run(enter(uri)))

\* a request for "/<uri>": served by index when the module defines it; the module
\* as written fails with SyntaxError when it is compiled, and nothing is served
serve(method, uri) ==
    IF "index" \notin ModuleGlobals
    THEN [kind |-> "raise", exc |-> "SyntaxError"]
    ELSE index(method, uri)

DispInit == req = [pc |-> "idle"]

\* a client sends a request
Receive(method, uri) ==
    /\ req.pc \in {"idle", "done"}
    /\ req' = [pc |-> "received", method |-> method, uri |-> uri]
    /\ UNCHANGED <<actionVars, wrapVars, capVars, regVars, memoVars>>

\* the request is answered, or fails
Serve ==
    /\ req.pc = "received"
    /\ req' = [pc |-> "done", method |-> req.method, uri |-> req.uri,
               outcome |-> serve(req.method, req.uri)]
    /\ UNCHANGED <<actionVars, wrapVars, capVars, regVars, memoVars>>

InitDispatch == DispInit /\ ActionIdle /\ WrapIdle /\ CapIdle /\ RegIdle /\ MemoIdle

NextDispatch ==
    \/ \E method \in Methods, uri \in Uris : Receive(method, uri)
    \/ Serve

SpecDispatch == InitDispatch /\ [][NextDispatch]_vars

\* C8: a request whose key is not in the registry ends in a client-visible
\* "not found" error and never in an unhandled error; a request whose key is
\* registered returns the result of the matched Action.
C8_DispatchNotFoundOrResult ==
    (req.pc = "done" /\ req.method \notin RefusedMethods) =>
        /\ req.outcome.kind # "raise"
        /\ req.uri.key \notin RegistryKeys =>
              (req.outcome.kind = "abort" /\ req.outcome.status = 404)
        /\ req.uri.key \in RegistryKeys => req.outcome.kind = "return"

----------------------------------------------------------------------------
(* The Action Registry: create and retrieve under the registry's mutex.       *)
(* l.models.Registry is not among the sources; this part follows the         *)
(* specification's sections 4.4 and 5.                                       *)

\* callers that create concurrently
NumCallers == 3

Callers == 1..NumCallers
Keys == {"k1", "k2"}

\* the Action caller c registers
ActionOf(c) == [action |-> c]

RegInit ==
    /\ reg = <<>>
    /\ lock = {}
    /\ caller \in [Callers -> {[pc |-> "start", key |-> k] : k \in Keys}]

\* CanAcquire not waiting for the mutex (a faulty variant: C9 must fail under it)
CanAcquire_NoMutex(c) == TRUE

\* the mutex is taken only when nobody holds it
CanAcquire(c) == lock = {}

\* create(key, action): take the mutex ...
Acquire(c) ==
    /\ caller[c].pc = "start"
    /\ CanAcquire(c)
    /\ lock' = lock \cup {c}
    /\ caller' = [caller EXCEPT ![c].pc = "locked"]
    /\ UNCHANGED <<reg, actionVars, wrapVars, capVars, dispVars, memoVars>>

\* ... fail with DuplicateKey if the key is present ...
CheckKey(c) ==
    /\ caller[c].pc = "locked"
    /\ caller' = [caller EXCEPT ![c] =
                    IF caller[c].key \in DOMAIN reg
                    THEN [pc |-> "unlock", key |-> caller[c].key,
                          outcome |-> "DuplicateKey"]
                    ELSE [pc |-> "insert", key |-> caller[c].key]]
    /\ UNCHANGED <<reg, lock, actionVars, wrapVars, capVars, dispVars, memoVars>>

\* ... otherwise store the action ...
Insert(c) ==
    /\ caller[c].pc = "insert"
    /\ reg' = (caller[c].key :> ActionOf(c)) @@ reg
    /\ caller' = [caller EXCEPT ![c] =
                    [pc |-> "unlock", key |-> caller[c].key, outcome |-> "ok"]]
    /\ UNCHANGED <<lock, actionVars, wrapVars, capVars, dispVars, memoVars>>

\* ... and release the mutex
Release(c) ==
    /\ caller[c].pc = "unlock"
    /\ lock' = lock \ {c}
    /\ caller' = [caller EXCEPT ![c].pc = "created"]
    /\ UNCHANGED <<reg, actionVars, wrapVars, capVars, dispVars, memoVars>>

\* retrieve(key): the Action, or KeyNotFound; a lookup sees no create half done
Retrieve(c) ==
    /\ caller[c].pc = "created"
    /\ lock = {}
    /\ caller' = [caller EXCEPT ![c] =
                    [pc |-> "done", key |-> caller[c].key,
                     outcome |-> caller[c].outcome,
                     got |-> IF caller[c].key \in DOMAIN reg
                             THEN reg[caller[c].key]
                             ELSE [error |-> "KeyNotFound"]]]
    /\ UNCHANGED <<reg, lock, actionVars, wrapVars, capVars, dispVars, memoVars>>

InitRegistry == RegInit /\ ActionIdle /\ WrapIdle /\ CapIdle /\ DispIdle /\ MemoIdle

NextRegistry ==
    \/ \E c \in Callers : Acquire(c)
    \/ \E c \in Callers : CheckKey(c)
    \/ \E c \in Callers : Insert(c)
    \/ \E c \in Callers : Release(c)
    \/ \E c \in Callers : Retrieve(c)

SpecRegistry == InitRegistry /\ [][NextRegistry]_vars

Created(c) == caller[c].pc \in {"unlock", "created", "done"}
Winners(k) == {c \in Callers : caller[c].key = k /\ Created(c) /\ caller[c].outcome = "ok"}
Losers(k) ==
    {c \in Callers : caller[c].key = k /\ Created(c) /\ caller[c].outcome = "DuplicateKey"}
CallersOf(k) == {c \in Callers : caller[c].key = k}

\* C9: of the callers that create the same key concurrently, in every
\* interleaving exactly one succeeds and the others fail with DuplicateKey, and a
\* later retrieve of the key returns the Action the successful call stored.
C9_CreateSerializedPerKey ==
    \A k \in Keys :
        /\ Cardinality(Winners(k)) <= 1
        /\ (CallersOf(k) # {} /\ \A c \in CallersOf(k) : Created(c)) =>
              /\ Cardinality(Winners(k)) = 1
              /\ Losers(k) = CallersOf(k) \ Winners(k)
        /\ \A c \in CallersOf(k) :
              caller[c].pc = "done" =>
                  \E w \in Winners(k) : caller[c].got = ActionOf(w) /\ reg[k] = ActionOf(w)

\* every caller created the same key and has retrieved it
C9_Witness ==
    /\ \A c \in Callers : caller[c].key = "k1" /\ caller[c].pc = "done"
    /\ Cardinality(Losers("k1")) = NumCallers - 1

----------------------------------------------------------------------------------------------------------------------------------------
(* memoize: the closure `result` around a function and its cache.           *)
(* A call is not one step: it binds the key and clears (lines 10-12), looks  *)
(* the key up (line 13), returns the cached value (line 14) or runs the      *)
(* function (line 15) and stores (lines 16-18). The function is arbitrary    *)
(* code: while it runs, other threads call `result`, and so may the function *)
(* itself; the second thread's steps stand for both.                         *)

\* calls of the memoized function in one run
MaxCalls == 3

MemoThreads == {"T1", "T2"}

\* the call forms: positional arguments and the keyword items in the order given;
\* "[]" stands for a list argument, which cannot be hashed
CallForms ==
    {[args |-> <<"p">>, kwargs |-> <<>>],
     [args |-> <<>>, kwargs |-> <<<<"x", "1">>, <<"y", "2">>>>],
     [args |-> <<>>, kwargs |-> <<<<"y", "2">>, <<"x", "1">>>>],
     [args |-> <<"[]">>, kwargs |-> <<>>]}

\* what one run of the wrapped function can do: return a value or raise
FunctionOutcomes ==
    {[kind |-> "return", value |-> v] : v \in {"v1", "v2"}}
      \cup {[kind |-> "raise", exc |-> "OSError"]}

\* call = (args, tuple(kwargs.items()))
CallKey(form) == <<form.args, form.kwargs>>

\* hash(call) succeeds: no list among the arguments
Hashable(key) ==
    /\ \A i \in 1..Len(key[1]) : key[1][i] # "[]"
    /\ \A i \in 1..Len(key[2]) : key[2][i][2] # "[]"

HashableKeys == {CallKey(f) : f \in {g \in CallForms : Hashable(CallKey(g))}}

\* if clear_cache: cache = {}
AtLookup(c, clear_cache) == IF clear_cache THEN <<>> ELSE c

\* Hit not looking at ignore_cache (a faulty variant: C10 must fail under it)
Hit_NoIgnore(c, key, ignore_cache) == key \in DOMAIN c

\* call in cache and not ignore_cache
Hit(c, key, ignore_cache) == key \in DOMAIN c /\ ~ignore_cache

\* if not skip_cache: cache[call] = res
Store(c, key, res, skip_cache) == IF ~skip_cache THEN (key :> res) @@ c ELSE c

NoRuns == [k \in HashableKeys |-> <<>>]

InProgress(t) == frame[t].pc \in {"lookup", "hit", "running"}

\* the function is running, or has run, in the call of thread t
Invoked(t) == frame[t].pc = "running"

MemoInit ==
    /\ cache = <<>>
    /\ hist = [ncalls |-> 0, clean |-> TRUE, serial |-> TRUE, runs |-> NoRuns]
    /\ lastCall = [op |-> "none"]
    /\ frame = [t \in MemoThreads |-> [pc |-> "idle"]]

\* result( *args, clear_cache, ignore_cache, skip_cache, **kwargs ) is entered:
\* the key is bound and, with clear_cache, the cache replaced by an empty one.
\* hist: clear_cache starts a new stretch, ignore_cache / skip_cache mark it, and
\* so does a call that begins while another is in progress.
Begin(t, form, clear_cache, ignore_cache, skip_cache) ==
    LET overlap == \E u \in MemoThreads \ {t} : InProgress(u)
    IN /\ ~InProgress(t)
       /\ hist.ncalls < MaxCalls
       /\ cache' = AtLookup(cache, clear_cache)
       /\ frame' = [frame EXCEPT ![t] =
                      [pc |-> "lookup", key |-> CallKey(form),
                       ignore |-> ignore_cache, skip |-> skip_cache]]
       /\ hist' = [ncalls |-> hist.ncalls + 1,
                   clean |-> (clear_cache \/ hist.clean) /\ ~ignore_cache /\ ~skip_cache,
                   serial |-> (clear_cache \/ hist.serial) /\ ~overlap,
                   runs |-> IF clear_cache THEN NoRuns ELSE hist.runs]
       /\ lastCall' = [op |-> "begin", before |-> cache, clear |-> clear_cache]
       /\ UNCHANGED <<actionVars, wrapVars, capVars, dispVars, regVars>>

\* if call in cache and not ignore_cache: hashing an unhashable call raises
\* TypeError, which ends the call
Lookup(t) ==
    /\ frame[t].pc = "lookup"
    /\ LET f == frame[t]
           go(pc) == [pc |-> pc, key |-> f.key, ignore |-> f.ignore, skip |-> f.skip,
                      present |-> f.key \in DOMAIN cache]
       IN IF ~Hashable(f.key)
          THEN /\ frame' = [frame EXCEPT ![t] = [pc |-> "idle"]]
               /\ lastCall' = [op |-> "lookup", before |-> cache, ended |-> TRUE,
                               key |-> f.key, invoked |-> FALSE,
                               outcome |-> [kind |-> "raise", exc |-> "TypeError"]]
          ELSE /\ frame' = [frame EXCEPT ![t] =
                              IF Hit(cache, f.key, f.ignore)
                              THEN go("hit") ELSE go("running")]
               /\ lastCall' = [op |-> "lookup", before |-> cache, ended |-> FALSE,
                               key |-> f.key]
    /\ UNCHANGED <<cache, hist, actionVars, wrapVars, capVars, dispVars, regVars>>

\* return cache[call]: KeyError if the cache was replaced since the lookup
ReturnHit(t) ==
    /\ frame[t].pc = "hit"
    /\ frame' = [frame EXCEPT ![t] = [pc |-> "idle"]]
    /\ lastCall' = [op |-> "hit", before |-> cache, ended |-> TRUE,
                    key |-> frame[t].key, invoked |-> FALSE,
                    outcome |-> IF frame[t].key \in DOMAIN cache
                                THEN [kind |-> "return", value |-> cache[frame[t].key]]
                                ELSE [kind |-> "raise", exc |-> "KeyError"]]
    /\ UNCHANGED <<cache, hist, actionVars, wrapVars, capVars, dispVars, regVars>>

\* res = function( *args, **kwargs ) ends with outcome `out`; if it returned,
\* the result is stored unless skip_cache, and returned
Finish(t, out) ==
    /\ frame[t].pc = "running"
    /\ cache' = IF out.kind = "return"
                THEN Store(cache, frame[t].key, out.value, frame[t].skip)
                ELSE cache
    /\ frame' = [frame EXCEPT ![t] = [pc |-> "idle"]]
    /\ hist' = [hist EXCEPT !.runs[frame[t].key] = Append(@, out)]
    /\ lastCall' = [op |-> "finish", before |-> cache, ended |-> TRUE,
                    key |-> frame[t].key, invoked |-> TRUE, skip |-> frame[t].skip,
                    outcome |-> out]
    /\ UNCHANGED <<actionVars, wrapVars, capVars, dispVars, regVars>>

InitMemo == MemoInit /\ ActionIdle /\ WrapIdle /\ CapIdle /\ DispIdle /\ RegIdle

NextMemo ==
    \/ \E t \in MemoThreads, form \in CallForms, clear_cache \in BOOLEAN,
          ignore_cache \in BOOLEAN, skip_cache \in BOOLEAN :
             Begin(t, form, clear_cache, ignore_cache, skip_cache)
    \/ \E t \in MemoThreads : Lookup(t)
    \/ \E t \in MemoThreads : ReturnHit(t)
    \/ \E t \in MemoThreads, out \in FunctionOutcomes : Finish(t, out)

SpecMemo == InitMemo /\ [][NextMemo]_vars

\* the runs of the function for key k, since the last clear_cache, that returned
Returned(k) == SelectSeq(hist.runs[k], LAMBDA o : o.kind = "return")

\* the step just taken ended a call
Ended == lastCall.op \in {"lookup", "hit", "finish"} /\ lastCall.ended

\* C10 as claimed (read for calls whose key can be hashed): the function runs on a
\* call exactly when the key is absent at lookup or ignore_cache is set; a result
\* is stored unless skip_cache; and in a stretch without clear_cache, ignore_cache
\* and skip_cache the function runs at most once per key and later calls return
\* the first result.
C10_AsClaimed ==
    /\ \A t \in MemoThreads :
          frame[t].pc \in {"hit", "running"} =>
              (Invoked(t) <=> (~frame[t].present \/ frame[t].ignore))
    /\ (lastCall.op = "finish" /\ lastCall.outcome.kind = "return" /\ ~lastCall.skip) =>
          (lastCall.key \in DOMAIN cache /\ cache[lastCall.key] = lastCall.outcome.value)
    /\ hist.clean =>
          \A k \in HashableKeys :
              /\ Len(hist.runs[k]) <= 1
              /\ (Ended /\ lastCall.key = k /\ hist.runs[k] # <<>>) =>
                    lastCall.outcome = hist.runs[k][1]

\* C10 amended: for a hashable key the function runs exactly when the key is
\* absent at lookup or ignore_cache is set, and a call with an unhashable argument
\* raises TypeError at the lookup without running it; clear_cache empties the
\* cache when the call is entered; a run that returns stores its result unless
\* skip_cache, and no other step of a call changes the cache; in a stretch
\* without clear_cache, ignore_cache and skip_cache in which no call begins while
\* another is in progress, the function returns at most once per key and every
\* later call with that key returns that first returned result.
C10_MemoizeRunsOncePerReturn ==
    /\ \A t \in MemoThreads :
          frame[t].pc \in {"hit", "running"} =>
              /\ Hashable(frame[t].key)
              /\ Invoked(t) <=> (~frame[t].present \/ frame[t].ignore)
    /\ (lastCall.op = "lookup" /\ ~Hashable(lastCall.key)) =>
          /\ lastCall.ended /\ ~lastCall.invoked
          /\ lastCall.outcome = [kind |-> "raise", exc |-> "TypeError"]
    /\ lastCall.op = "begin" =>
          IF lastCall.clear THEN DOMAIN cache = {} ELSE cache = lastCall.before
    /\ lastCall.op \in {"lookup", "hit"} => cache = lastCall.before
    /\ lastCall.op = "finish" =>
          IF lastCall.outcome.kind = "return" /\ ~lastCall.skip
          THEN /\ DOMAIN cache = DOMAIN lastCall.before \cup {lastCall.key}
               /\ cache[lastCall.key] = lastCall.outcome.value
               /\ \A k \in DOMAIN cache \ {lastCall.key} : cache[k] = lastCall.before[k]
          ELSE cache = lastCall.before
    /\ (hist.clean /\ hist.serial) =>
          /\ \A k \in HashableKeys :
                /\ Len(Returned(k)) <= 1
                /\ (Ended /\ lastCall.key = k /\ Returned(k) # <<>>) =>
                      lastCall.outcome = Returned(k)[1]
          /\ lastCall.op = "hit" => lastCall.outcome.kind = "return"

\* a key whose first run raised and whose second run returned, then served from
\* the cache
C10_Witness ==
    /\ hist.clean /\ hist.serial
    /\ lastCall.op = "hit" /\ Hashable(lastCall.key)
    /\ Len(hist.runs[lastCall.key]) = 2
    /\ Len(Returned(lastCall.key)) = 1
    /\ lastCall.outcome = Returned(lastCall.key)[1]

====
